---- MODULE Spec2Model ----
(***************************************************************************)
(* Model of the branding-colour core of branding-picker (src/src/main.ts): *)
(* analyzePixbuf (pixel sampling, k-means clustering, cluster selection,   *)
(* light/dark variant derivation), the colour utilities hexToRgb,          *)
(* relativeLuminanceRgb and contrastRatio, and the tracking of downloaded  *)
(* temp files by handleFile.                                               *)
(*                                                                         *)
(* Real numbers are modelled exactly as fractions <<n, d>> of integers     *)
(* (d > 0).  Lightness values inside the variant derivation are integers   *)
(* in units of 1/LScale; every lightness the code can produce (a multiple  *)
(* of 1/510 shifted by a multiple of 1/100) is such an integer.            *)
(* Strings are sequences of one-character strings.                         *)
(***************************************************************************)
EXTENDS Integers, Sequences, FiniteSets, TLC

(***************************************************************************)
(* Bounds of the model.                                                    *)
(***************************************************************************)
\* longest patch of a second colour in a generated image
MaxPatch == 2
\* number of times analyzePixbuf is invoked on the same pixbuf
MaxRuns == 2

(***************************************************************************)
(* Arithmetic helpers (Math.max, Math.min, Math.floor, Math.round).        *)
(***************************************************************************)
Max2(a, b) == IF a >= b THEN a ELSE b
Min2(a, b) == IF a <= b THEN a ELSE b
Max3(a, b, c) == Max2(a, Max2(b, c))
Min3(a, b, c) == Min2(a, Min2(b, c))

\* Math.round(n / d) for d > 0: halves round towards +infinity
RoundDiv(n, d) == (2 * n + d) \div (2 * d)

\* comparisons of fractions <<n, d>>, d > 0
FracLt(x, y) == x[1] * y[2] < y[1] * x[2]
FracEq(x, y) == x[1] * y[2] = y[1] * x[2]
FracLe(x, y) == x[1] * y[2] <= y[1] * x[2]

\* what a read outside an array of triples yields (JavaScript's undefined)
Undefined == <<>>

\* arr[i] with JavaScript's 0-based index; Undefined outside the array
At(arr, i) == IF (i + 1) \in DOMAIN arr THEN arr[i + 1] ELSE Undefined

\* what a read outside the byte array yields (JavaScript's undefined)
NoByte == 0 - 1

\* pixels[i] with JavaScript's 0-based index
ByteAt(pixels, i) == IF (i + 1) \in DOMAIN pixels THEN pixels[i + 1] ELSE NoByte

\* x & 0xff; "undefined & 0xff" is 0
And255(x) == IF x = NoByte THEN 0 ELSE x % 256

(***************************************************************************)
(* rgbToHex, hexToRgb                                                      *)
(***************************************************************************)
HexChars == <<"0", "1", "2", "3", "4", "5", "6", "7", "8", "9",
              "a", "b", "c", "d", "e", "f">>

RECURSIVE ToString16(_)
\* Number.prototype.toString(16)
ToString16(n) ==
  IF n < 0 THEN <<"-">> \o ToString16(0 - n)
  ELSE IF n < 16 THEN <<HexChars[n + 1]>>
  ELSE Append(ToString16(n \div 16), HexChars[(n % 16) + 1])

\* s.slice(1)
Slice1(s) == IF Len(s) = 0 THEN s ELSE Tail(s)

\* '#' + ((1 << 24) + (r << 16) + (g << 8) + b).toString(16).slice(1)
rgbToHex(r, g, b) ==
  <<"#">> \o Slice1(ToString16(16777216 + r * 65536 + g * 256 + b))

\* value of one hexadecimal digit (either case), -1 for any other character
HexVal(ch) ==
  CASE ch = "0" -> 0 [] ch = "1" -> 1 [] ch = "2" -> 2 [] ch = "3" -> 3
    [] ch = "4" -> 4 [] ch = "5" -> 5 [] ch = "6" -> 6 [] ch = "7" -> 7
    [] ch = "8" -> 8 [] ch = "9" -> 9
    [] ch \in {"a", "A"} -> 10 [] ch \in {"b", "B"} -> 11
    [] ch \in {"c", "C"} -> 12 [] ch \in {"d", "D"} -> 13
    [] ch \in {"e", "E"} -> 14 [] ch \in {"f", "F"} -> 15
    [] OTHER -> 0 - 1

RECURSIVE RemoveFirstHash(_)
\* hex.replace('#', ''): removes the first '#'
RemoveFirstHash(s) ==
  IF Len(s) = 0 THEN s
  ELSE IF Head(s) = "#" THEN Tail(s)
  ELSE <<Head(s)>> \o RemoveFirstHash(Tail(s))

RECURSIVE ParseInt16(_, _)
\* parseInt(h, 16) over the longest prefix of hex digits, acc so far;
\* the bit operations that follow turn NaN into 0
ParseInt16(s, acc) ==
  IF Len(s) = 0 \/ HexVal(Head(s)) < 0 THEN acc
  ELSE ParseInt16(Tail(s), acc * 16 + HexVal(Head(s)))

\* variant of hexToRgb: the shifted values are not masked with 255
hexToRgbUnmasked(hex) ==
  LET bigint == ParseInt16(RemoveFirstHash(hex), 0)
  IN  <<bigint \div 65536, bigint \div 256, bigint>>

hexToRgb(hex) ==
  LET bigint == ParseInt16(RemoveFirstHash(hex), 0)
  IN  <<(bigint \div 65536) % 256, (bigint \div 256) % 256, bigint % 256>>

(***************************************************************************)
(* rgbToHsl, hslToRgb                                                      *)
(* An HSL value is a record [h, s, l] of fractions; the denominator of h   *)
(* is 6 * (max - min) (6 in the achromatic case), that of l is 510.        *)
(***************************************************************************)
\* units of lightness inside hslToRgb and the variant derivation
LScale == 20 * 255

\* variant of rgbToHsl: without "+ (g < b ? 6 : 0)" in the hue
rgbToHslNoWrap(r, g, b) ==
  LET max == Max3(r, g, b)
      min == Min3(r, g, b)
      d   == max - min
      sum == max + min
  IN  IF max = min
      THEN [h |-> <<0, 6>>, s |-> <<0, 1>>, l |-> <<sum, 510>>]
      ELSE [h |-> IF max = r
                    THEN <<g - b, 6 * d>>
                    ELSE IF max = g
                    THEN <<(b - r) + 2 * d, 6 * d>>
                    ELSE <<(r - g) + 4 * d, 6 * d>>,
            s |-> IF sum > 255 THEN <<d, 510 - sum>> ELSE <<d, sum>>,
            l |-> <<sum, 510>>]

rgbToHsl(r, g, b) ==
  LET max == Max3(r, g, b)
      min == Min3(r, g, b)
      d   == max - min
      sum == max + min
  IN  IF max = min
      THEN [h |-> <<0, 6>>, s |-> <<0, 1>>, l |-> <<sum, 510>>]
      ELSE [h |-> IF max = r
                    THEN <<(g - b) + (IF g < b THEN 6 * d ELSE 0), 6 * d>>
                    ELSE IF max = g
                    THEN <<(b - r) + 2 * d, 6 * d>>
                    ELSE <<(r - g) + 4 * d, 6 * d>>,
            s |-> IF sum > 255 THEN <<d, 510 - sum>> ELSE <<d, sum>>,
            l |-> <<sum, 510>>]

\* variant of hue2rgb: the falling ramp starts from 1/2 instead of 2/3
hue2rgbShort(pn, qn, tn, d) ==
  LET t1 == IF tn < 0 THEN tn + 6 * d ELSE tn
      t2 == IF t1 > 6 * d THEN t1 - 6 * d ELSE t1
  IN  IF t2 < d THEN pn * d + (qn - pn) * t2
      ELSE IF t2 < 3 * d THEN qn * d
      ELSE IF t2 < 4 * d THEN pn * d + (qn - pn) * (3 * d - t2)
      ELSE pn * d

\* hue2rgb(p, q, t) as a numerator over (LScale * sd * d), where
\* p = pn / (LScale * sd), q = qn / (LScale * sd) and t = tn / (6 * d)
hue2rgb(pn, qn, tn, d) ==
  LET t1 == IF tn < 0 THEN tn + 6 * d ELSE tn
      t2 == IF t1 > 6 * d THEN t1 - 6 * d ELSE t1
  IN  IF t2 < d THEN pn * d + (qn - pn) * t2
      ELSE IF t2 < 3 * d THEN qn * d
      ELSE IF t2 < 4 * d THEN pn * d + (qn - pn) * (4 * d - t2)
      ELSE pn * d

\* hslToRgb(h, s, l) with l = a / LScale; Math.round(x * 255) of
\* x = N / (LScale * sd * d) is Math.round(N / (20 * sd * d))
hslToRgb(h, s, a) ==
  IF s[1] = 0
  THEN LET v == RoundDiv(a, 20) IN <<v, v, v>>
  ELSE LET sn == s[1]
           sd == s[2]
           d  == h[2] \div 6
           qn == IF 2 * a < LScale THEN a * (sd + sn)
                 ELSE a * sd + LScale * sn - a * sn
           pn == 2 * a * sd - qn
           m  == 20 * sd * d
       IN  <<RoundDiv(hue2rgb(pn, qn, h[1] + 2 * d, d), m),
             RoundDiv(hue2rgb(pn, qn, h[1], d), m),
             RoundDiv(hue2rgb(pn, qn, h[1] - 2 * d, d), m)>>

\* the lightness l = n / 510 of an HSL value in units of 1 / LScale
LUnits(l) == l[1] * (LScale \div l[2])

(***************************************************************************)
(* analyzePixbuf: pixel sampling (main.ts 56-80)                           *)
(***************************************************************************)
\* Math.max(1, Math.floor(Math.min(width, height) / 60))
StepOf(width, height) == Max2(1, Min2(width, height) \div 60)

\* number of values v = 0, step, 2*step, ... below limit
GridCount(limit, step) == (limit + step - 1) \div step

\* alpha below which a pixel of a 4-channel buffer is skipped
ALPHA_MIN == 10

\* variant of SkipPixel: alpha 10 is skipped as well
SkipPixelInclusive(pb, idx) ==
  pb.n_channels = 4 /\ And255(ByteAt(pb.pixels, idx + 3)) <= ALPHA_MIN

\* the pixel is skipped: 4 channels and (pixels[idx + 3] & 0xff) < 10
SkipPixel(pb, idx) ==
  pb.n_channels = 4 /\ And255(ByteAt(pb.pixels, idx + 3)) < ALPHA_MIN

\* [r, g, b] read at byte index idx
ReadRgb(pb, idx) ==
  <<And255(ByteAt(pb.pixels, idx)),
    And255(ByteAt(pb.pixels, idx + 1)),
    And255(ByteAt(pb.pixels, idx + 2))>>

\* byte index of the j-th grid position (row-major)
GridIdx(pb, j) ==
  LET step == StepOf(pb.width, pb.height)
      nx   == GridCount(pb.width, step)
      y    == (j \div nx) * step
      x    == (j % nx) * step
  IN  y * pb.rowstride + x * pb.n_channels

RECURSIVE CollectFrom(_, _, _)
\* the samples pushed at the grid positions j .. total - 1, in loop order
CollectFrom(pb, j, total) ==
  IF j >= total THEN <<>>
  ELSE IF j + 1 = total
  THEN (IF SkipPixel(pb, GridIdx(pb, j)) THEN <<>>
        ELSE <<ReadRgb(pb, GridIdx(pb, j))>>)
  ELSE CollectFrom(pb, j, (j + total) \div 2)
         \o CollectFrom(pb, (j + total) \div 2, total)

\* <<number of values of y, number of values of x>> of the two loops
GridSize(pb) ==
  LET step == StepOf(pb.width, pb.height)
  IN  <<GridCount(pb.height, step), GridCount(pb.width, step)>>

CollectSamples(pb) ==
  LET step == StepOf(pb.width, pb.height)
  IN  CollectFrom(pb, 0,
                  GridCount(pb.height, step) * GridCount(pb.width, step))

(***************************************************************************)
(* analyzePixbuf: k-means clustering (main.ts 86-140)                      *)
(***************************************************************************)
\* variant of NoSamples: the empty sample list is not detected
NoSamplesIgnored(s) == FALSE

\* samples.length === 0
NoSamples(s) == Len(s) = 0

\* the literal returned for an empty sample list
FallbackResult ==
  [primary |-> <<"#", "8", "8", "8", "8", "8", "8">>,
   light   |-> <<"#", "b", "b", "b", "b", "b", "b">>,
   dark    |-> <<"#", "4", "4", "4", "4", "4", "4">>]

\* variant of KOf: without the lower bound 2
KOfNoFloor(n) == Min2(6, n \div 20)

\* Math.min(6, Math.max(2, Math.floor(samples.length / 20)))
KOf(n) == Min2(6, Max2(2, n \div 20))

\* number of the current call of analyzePixbuf on pixbuf
VARIABLE run

\* variant of CentroidSeed: the seeds move on with every call, so a call
\* depends on how many calls preceded it
CentroidSeedPerRun(i, n, kk) == (((i + run - 1) * n) \div kk) % n

\* index of the sample that becomes centroid i
CentroidSeed(i, n, kk) == (i * n) \div kk

InitialCentroids(s, kk) ==
  [c \in 1..kk |-> At(s, CentroidSeed(c - 1, Len(s), kk))]

\* cap of the clustering loop
ITER_CAP == 12

\* Number.POSITIVE_INFINITY
Infinity == 0 - 1

Dist(p, c) ==
  (p[1] - c[1]) * (p[1] - c[1]) + (p[2] - c[2]) * (p[2] - c[2])
    + (p[3] - c[3]) * (p[3] - c[3])

\* variant of Closer: dist <= bestDist, a later centroid wins a tie
CloserOrEqual(dist, bestDist) == bestDist = Infinity \/ dist <= bestDist

\* dist < bestDist
Closer(dist, bestDist) == bestDist = Infinity \/ dist < bestDist

RECURSIVE NearestFrom(_, _, _, _, _)
\* the scan "for c ... if (dist < bestDist)" from centroid c on
NearestFrom(p, cs, c, best, bestDist) ==
  IF c >= Len(cs) THEN best
  ELSE IF Closer(Dist(p, At(cs, c)), bestDist)
       THEN NearestFrom(p, cs, c + 1, c, Dist(p, At(cs, c)))
       ELSE NearestFrom(p, cs, c + 1, best, bestDist)

Nearest(p, cs) == NearestFrom(p, cs, 0, 0, Infinity)

\* the assignment step over all samples
AssignAll(s, cs) == [i \in 1..Len(s) |-> Nearest(s[i], cs)]

RECURSIVE SumOf(_, _, _, _, _, _)
\* sums[c][ch] accumulated over the samples lo .. hi
SumOf(s, as, c, ch, lo, hi) ==
  IF lo > hi THEN 0
  ELSE IF lo = hi THEN (IF as[lo] = c THEN s[lo][ch] ELSE 0)
  ELSE SumOf(s, as, c, ch, lo, (lo + hi) \div 2)
         + SumOf(s, as, c, ch, ((lo + hi) \div 2) + 1, hi)

RECURSIVE CountOf(_, _, _, _)
\* counts[c] accumulated over the samples lo .. hi
CountOf(as, c, lo, hi) ==
  IF lo > hi THEN 0
  ELSE IF lo = hi THEN (IF as[lo] = c THEN 1 ELSE 0)
  ELSE CountOf(as, c, lo, (lo + hi) \div 2)
         + CountOf(as, c, ((lo + hi) \div 2) + 1, hi)

\* variant of NewCentroid: the mean is truncated (Math.floor)
NewCentroidFloor(s, as, cs, c) ==
  LET cnt == CountOf(as, c, 1, Len(as))
  IN  IF cnt > 0
      THEN <<SumOf(s, as, c, 1, 1, Len(s)) \div cnt,
             SumOf(s, as, c, 2, 1, Len(s)) \div cnt,
             SumOf(s, as, c, 3, 1, Len(s)) \div cnt>>
      ELSE At(cs, c)

\* the centroid of cluster c after the update step
NewCentroid(s, as, cs, c) ==
  LET cnt == CountOf(as, c, 1, Len(as))
  IN  IF cnt > 0
      THEN <<RoundDiv(SumOf(s, as, c, 1, 1, Len(s)), cnt),
             RoundDiv(SumOf(s, as, c, 2, 1, Len(s)), cnt),
             RoundDiv(SumOf(s, as, c, 3, 1, Len(s)), cnt)>>
      ELSE At(cs, c)

UpdateAll(s, as, cs) == [c \in 1..Len(cs) |-> NewCentroid(s, as, cs, c - 1)]

\* variant of LoopEnds: the loop is left after its first iteration
LoopEndsAtOnce(ch, it) == TRUE

\* variant of LoopEnds: the loop condition is iter <= 12
LoopEndsLate(ch, it) == ~ch \/ it > ITER_CAP

\* the loop leaves after this iteration: "if (!changed) break" or iter < 12
LoopEnds(ch, it) == ~ch \/ it >= ITER_CAP

(***************************************************************************)
(* analyzePixbuf: cluster selection (main.ts 142-180)                      *)
(***************************************************************************)
\* satThreshold = 0.12
satThreshold == <<3, 25>>

\* the margin 0.05 of "moreSat[0].sat > chosen.sat + 0.05"
SAT_MARGIN == <<1, 20>>

\* countsArr[c] * (1 + sat * 3)
ScoreOf(count, sat) == <<count * (sat[2] + 3 * sat[1]), sat[2]>>

\* the ClusterInfo of cluster c
ClusterInfo(c, cs, as) ==
  LET rgb == At(cs, c)
      hsl == rgbToHsl(rgb[1], rgb[2], rgb[3])
      cnt == CountOf(as, c, 1, Len(as))
  IN  [idx |-> c, count |-> cnt, rgb |-> rgb, hsl |-> hsl, sat |-> hsl.s,
       score |-> ScoreOf(cnt, hsl.s)]

RECURSIVE InsertByScore(_, _)
\* variant of InsertByScore: x placed ahead of the elements of equal score
InsertByScoreAhead(sorted, x) ==
  IF Len(sorted) = 0 THEN <<x>>
  ELSE IF FracLe(Head(sorted).score, x.score) THEN <<x>> \o sorted
  ELSE <<Head(sorted)>> \o InsertByScore(Tail(sorted), x)

\* variant of InsertByScore: ascending order, the lowest score first
InsertByScoreAscending(sorted, x) ==
  IF Len(sorted) = 0 THEN <<x>>
  ELSE IF FracLt(x.score, Head(sorted).score) THEN <<x>> \o sorted
  ELSE <<Head(sorted)>> \o InsertByScore(Tail(sorted), x)

\* x placed behind every element whose score is not below x's
InsertByScore(sorted, x) ==
  IF Len(sorted) = 0 THEN <<x>>
  ELSE IF FracLt(Head(sorted).score, x.score) THEN <<x>> \o sorted
  ELSE <<Head(sorted)>> \o InsertByScore(Tail(sorted), x)

RECURSIVE SortByScore(_)
\* clusters.sort((a, b) => b.score - a.score), a stable sort
SortByScore(seq) ==
  IF Len(seq) = 0 THEN <<>>
  ELSE InsertByScore(SortByScore(SubSeq(seq, 1, Len(seq) - 1)), seq[Len(seq)])

RECURSIVE InsertBySat(_, _)
InsertBySat(sorted, x) ==
  IF Len(sorted) = 0 THEN <<x>>
  ELSE IF FracLt(Head(sorted).sat, x.sat) THEN <<x>> \o sorted
  ELSE <<Head(sorted)>> \o InsertBySat(Tail(sorted), x)

RECURSIVE SortBySat(_)
\* .sort((a, b) => b.sat - a.sat), a stable sort
SortBySat(seq) ==
  IF Len(seq) = 0 THEN <<>>
  ELSE InsertBySat(SortBySat(SubSeq(seq, 1, Len(seq) - 1)), seq[Len(seq)])

\* the sorted array clusters
BuildClusters(cs, as) ==
  SortByScore([c \in 1..Len(cs) |-> ClusterInfo(c - 1, cs, as)])

\* Math.max(1, Math.floor(samples.length * 0.03))
MinCount(n) == Max2(1, (3 * n) \div 100)

\* a.sat > b.sat + 0.05
SatExceeds(a, b) ==
  SAT_MARGIN[2] * a[1] * b[2] > SAT_MARGIN[2] * b[1] * a[2]
                                  + SAT_MARGIN[1] * a[2] * b[2]

\* the clusters that pass .filter((c) => c.count >= minCount), by saturation
MoreSat(cl, n) ==
  LET Big(c) == c.count >= MinCount(n)
  IN  SortBySat(SelectSeq(cl, Big))

\* chosen, from the sorted array clusters and samples.length
Choose(cl, n) ==
  IF FracLt(cl[1].sat, satThreshold)
  THEN LET moreSat == MoreSat(cl, n)
       IN  IF Len(moreSat) > 0 /\ SatExceeds(moreSat[1].sat, cl[1].sat)
           THEN moreSat[1]
           ELSE cl[1]
  ELSE cl[1]

(***************************************************************************)
(* analyzePixbuf: light and dark variants (main.ts 246-289)                *)
(* Lightness in units of 1 / LScale.                                       *)
(***************************************************************************)
\* 0.12 of "Math.max(psOrig, 0.12)"
SAT_FLOOR == <<3, 25>>

\* 0.03 and 0.97 of clamp01
CLAMP_LO == (3 * LScale) \div 100
\* variant of CLAMP_HI: the upper limit is 1
CLAMP_HI_ONE == LScale

CLAMP_HI == (97 * LScale) \div 100

DEFAULT_LIGHT_DELTA == (22 * LScale) \div 100
\* variant of DEFAULT_DARK_DELTA: the delta of the light variant
DEFAULT_DARK_DELTA_AS_LIGHT == (22 * LScale) \div 100

DEFAULT_DARK_DELTA == (26 * LScale) \div 100
\* variant of MIN_DARK_GAP: a gap of 0.3
MIN_DARK_GAP_WIDE == (30 * LScale) \div 100

MIN_DARK_GAP == (12 * LScale) \div 100

\* pl > 0.85 and pl < 0.15
\* variant of VERY_LIGHT: 0.85 itself counts as very light
VERY_LIGHT_INCLUSIVE == ((85 * LScale) \div 100) - 1

VERY_LIGHT == (85 * LScale) \div 100
\* variant of VERY_DARK: only lightness below 0.05 counts as very dark
VERY_DARK_LOW == (5 * LScale) \div 100

VERY_DARK == (15 * LScale) \div 100

\* the shifts 0.08 and 0.3 of the very light / very dark cases
SMALL_SHIFT == (8 * LScale) \div 100
LARGE_SHIFT == (30 * LScale) \div 100

\* variant of clamp01: no clamping
clamp01Off(v) == v

\* Math.max(0.03, Math.min(0.97, v))
clamp01(v) == Max2(CLAMP_LO, Min2(CLAMP_HI, v))

\* variant of EffectiveS: the saturation is not raised
EffectiveSRaw(psOrig) == psOrig

\* ps = Math.max(psOrig, 0.12)
EffectiveS(psOrig) == IF FracLt(psOrig, SAT_FLOOR) THEN SAT_FLOOR ELSE psOrig

\* lightL after the very light / very dark adjustment
LightOf(pl) ==
  IF pl > VERY_LIGHT THEN clamp01(pl - SMALL_SHIFT)
  ELSE IF pl < VERY_DARK THEN clamp01(pl + LARGE_SHIFT)
  ELSE clamp01(pl + DEFAULT_LIGHT_DELTA)

\* darkL after the very light / very dark adjustment
DarkBase(pl) ==
  IF pl > VERY_LIGHT THEN clamp01(pl - LARGE_SHIFT)
  ELSE IF pl < VERY_DARK THEN clamp01(pl - SMALL_SHIFT)
  ELSE clamp01(pl - DEFAULT_DARK_DELTA)

\* variant of DarkOf: the minimum-gap correction is left out
DarkOfNoGap(pl) == DarkBase(pl)

\* darkL after "if (pl - darkL < MIN_DARK_GAP) darkL = clamp01(pl - MIN_DARK_GAP)"
DarkOf(pl) ==
  IF pl - DarkBase(pl) < MIN_DARK_GAP THEN clamp01(pl - MIN_DARK_GAP)
  ELSE DarkBase(pl)

\* variant of MakeResult: primary is formatted from the light variant
MakeResultShifted(primaryRgb, lRgb, dRgb) ==
  [primary |-> rgbToHex(lRgb[1], lRgb[2], lRgb[3]),
   light   |-> rgbToHex(lRgb[1], lRgb[2], lRgb[3]),
   dark    |-> rgbToHex(dRgb[1], dRgb[2], dRgb[3])]

\* the returned object
MakeResult(primaryRgb, lRgb, dRgb) ==
  [primary |-> rgbToHex(primaryRgb[1], primaryRgb[2], primaryRgb[3]),
   light   |-> rgbToHex(lRgb[1], lRgb[2], lRgb[3]),
   dark    |-> rgbToHex(dRgb[1], dRgb[2], dRgb[3])]

(***************************************************************************)
(* relativeLuminanceRgb, contrastRatio (main.ts 501-516)                   *)
(* A linearised channel is an integer in units of 1 / LinScale (rounded to *)
(* the nearest unit), a luminance an integer in units of 1 / LumScale.     *)
(***************************************************************************)
LinScale == 100 * 100

\* Math.pow((c / 255 + 0.055) / 1.055, 2.4) in units of 1 / LinScale,
\* tabulated for c = 0..255
PowTable ==
  <<
    0, 3, 6, 9, 12, 15, 18, 21, 24, 27, 30, 33,
    37, 40, 44, 48, 52, 56, 60, 65, 70, 75, 80, 86,
    91, 97, 103, 110, 116, 123, 130, 137, 144, 152, 160, 168,
    176, 185, 194, 203, 212, 222, 232, 242, 252, 262, 273, 284,
    296, 307, 319, 331, 343, 356, 369, 382, 395, 409, 423, 437,
    452, 467, 482, 497, 513, 529, 545, 561, 578, 595, 612, 630,
    648, 666, 685, 704, 723, 742, 762, 782, 802, 823, 844, 865,
    887, 908, 931, 953, 976, 999, 1022, 1046, 1070, 1095, 1119, 1144,
    1170, 1195, 1221, 1248, 1274, 1301, 1329, 1356, 1384, 1413, 1441, 1470,
    1500, 1529, 1559, 1590, 1620, 1651, 1683, 1714, 1746, 1779, 1812, 1845,
    1878, 1912, 1946, 1981, 2016, 2051, 2086, 2122, 2159, 2195, 2232, 2270,
    2307, 2346, 2384, 2423, 2462, 2502, 2542, 2582, 2623, 2664, 2705, 2747,
    2789, 2831, 2874, 2918, 2961, 3005, 3050, 3095, 3140, 3185, 3231, 3278,
    3325, 3372, 3419, 3467, 3515, 3564, 3613, 3663, 3712, 3763, 3813, 3864,
    3916, 3968, 4020, 4072, 4125, 4179, 4233, 4287, 4342, 4397, 4452, 4508,
    4564, 4621, 4678, 4735, 4793, 4851, 4910, 4969, 5029, 5089, 5149, 5210,
    5271, 5333, 5395, 5457, 5520, 5583, 5647, 5711, 5776, 5841, 5906, 5972,
    6038, 6105, 6172, 6240, 6308, 6376, 6445, 6514, 6584, 6654, 6724, 6795,
    6867, 6939, 7011, 7084, 7157, 7231, 7305, 7379, 7454, 7529, 7605, 7682,
    7758, 7835, 7913, 7991, 8070, 8148, 8228, 8308, 8388, 8469, 8550, 8632,
    8714, 8796, 8879, 8963, 9047, 9131, 9216, 9301, 9387, 9473, 9560, 9647,
    9734, 9823, 9911, 10000
  >>

\* c / 255 <= 0.03928 ? c / 255 / 12.92 : Math.pow(...)
SrgbToLinear(c) ==
  IF c * 100000 <= 3928 * 255
  THEN RoundDiv(c * LinScale * 100, 255 * 1292)
  ELSE PowTable[c + 1]

\* the weights 0.2126, 0.7152, 0.0722 in units of 1 / 5000
LumScale == 5000 * LinScale

\* variant of relativeLuminanceRgb: two digits of the green weight swapped
relativeLuminanceSwapped(r, g, b) ==
  1063 * SrgbToLinear(r) + 3756 * SrgbToLinear(g) + 361 * SrgbToLinear(b)

relativeLuminanceRgb(r, g, b) ==
  1063 * SrgbToLinear(r) + 3576 * SrgbToLinear(g) + 361 * SrgbToLinear(b)

\* 0.05 in units of 1 / LumScale
LUM_OFFSET == LumScale \div 20

\* variant of RatioOf: the luminances are not ordered
RatioUnordered(L1, L2) == <<L1 + LUM_OFFSET, L2 + LUM_OFFSET>>

\* (lighter + 0.05) / (darker + 0.05), as a fraction
RatioOf(L1, L2) == <<Max2(L1, L2) + LUM_OFFSET, Min2(L1, L2) + LUM_OFFSET>>

contrastRatio(hex1, hex2) ==
  LET c1 == hexToRgb(hex1)
      c2 == hexToRgb(hex2)
  IN  RatioOf(relativeLuminanceRgb(c1[1], c1[2], c1[3]),
              relativeLuminanceRgb(c2[1], c2[2], c2[3]))

(***************************************************************************)
(* Input pixbufs.  A generated image is filled with a base colour and      *)
(* carries a patch of a second colour from pixel number start on; rows are *)
(* padded to a multiple of four bytes as GdkPixbuf does.                   *)
(***************************************************************************)
\* RGBA colours of generated images: grays, tinted grays, saturated
\* colours, and pixels around the alpha threshold
Palette ==
  { <<128, 128, 128, 255>>, <<120, 128, 128, 255>>, <<100, 128, 128, 255>>,
    <<255, 0, 0, 255>>, <<0, 0, 0, 255>>, <<255, 255, 255, 255>>,
    <<0, 0, 255, 0>>, <<0, 255, 0, 9>>, <<200, 100, 0, 10>> }

\* <<width, height>> of generated images
Dims == { <<1, 1>>, <<2, 1>>, <<3, 2>>, <<8, 5>>, <<9, 9>> }

\* pixel numbers at which a patch may start
Starts == {0, 1, 20}

RowStride(w, nch) == ((w * nch + 3) \div 4) * 4

\* the RGBA colour of pixel number i
PixelColour(i, base, patch, start, len) ==
  IF i >= start /\ i < start + len THEN patch ELSE base

\* byte j (0-based) of the buffer
BufferByte(j, w, nch, base, patch, start, len) ==
  LET y   == j \div RowStride(w, nch)
      off == j % RowStride(w, nch)
      x   == off \div nch
  IN  IF x >= w THEN 0
      ELSE PixelColour(y * w + x, base, patch, start, len)[(off % nch) + 1]

MakePixbuf(w, h, nch, base, patch, start, len) ==
  [width |-> w, height |-> h, rowstride |-> RowStride(w, nch),
   n_channels |-> nch,
   pixels |-> [j \in 1..(h * RowStride(w, nch)) |->
                 BufferByte(j - 1, w, nch, base, patch, start, len)]]

\* colours of the larger generated images
SmallPalette ==
  { <<128, 128, 128, 255>>, <<255, 0, 0, 255>>, <<200, 100, 0, 10>> }

\* <<width, height>> of the larger generated images: 60, 100 and 130
\* pixels, and a row longer than twice 60 pixels
LargeDims == { <<10, 6>>, <<10, 10>>, <<130, 1>> }

\* a 3-channel image of one row whose pixels are the grays of levels
GrayRow(levels) ==
  [width |-> Len(levels), height |-> 1,
   rowstride |-> RowStride(Len(levels), 3), n_channels |-> 3,
   pixels |-> [j \in 1..RowStride(Len(levels), 3) |->
                 IF (j - 1) \div 3 < Len(levels)
                 THEN levels[((j - 1) \div 3) + 1] ELSE 0]]

\* gray levels on which the clustering loop is still changing after 12
\* iterations, and levels on which its 12th iteration changes nothing
RampCapped ==
  <<5, 7, 18, 29, 33, 37, 39, 40, 47, 71, 79, 86, 86, 90, 90, 99, 103, 104,
    104, 105, 113, 115, 118, 120, 121, 125, 129, 130, 142, 148, 160, 163,
    173, 201, 207, 216, 220, 228, 234, 245>>

RampSettled ==
  <<22, 26, 27, 35, 36, 41, 42, 46, 48, 59, 71, 74, 88, 89, 96, 97, 101, 104,
    106, 110, 113, 115, 119, 120, 123, 128, 134, 148, 154, 158, 162, 172,
    176, 178, 179, 181, 184, 194, 201, 238, 246>>

\* gray levels on which the loop needs 14 iterations to settle: after 12
\* iterations some sample is not at its nearest centroid
RampUnsettled ==
  <<6, 9, 12, 23, 25, 27, 35, 48, 62, 64, 71, 83, 86, 89, 94, 101, 102, 104,
    109, 112, 114, 117, 119, 122, 122, 127, 129, 139, 147, 154, 157, 158,
    167, 173, 193, 209, 217, 218, 241, 243, 246>>

\* greatest number of bytes missing at the end of a pixel buffer
MaxCut == 8

\* pb with a pixel buffer that is cut bytes shorter than its dimensions say
Truncate(pb, cut) ==
  [pb EXCEPT !.pixels = SubSeq(pb.pixels, 1, Max2(0, Len(pb.pixels) - cut))]

\* greatest value of max + min of a colour
MaxSum == 2 * 255

\* one opaque colour for every lightness sum / 510: a near-gray one
\* (kind 0), a reddish one (kind 1) and a bluish one (kind 2)
Shade(sum, kind) ==
  IF kind = 0 THEN <<(sum + 1) \div 2, sum \div 2, sum \div 2, 255>>
  ELSE IF kind = 1
  THEN (IF sum <= 255 THEN <<sum, 0, 0, 255>>
        ELSE <<255, sum - 255, sum - 255, 255>>)
  ELSE (IF sum <= 255 THEN <<0, 0, sum, 255>>
        ELSE <<sum - 255, sum - 255, 255, 255>>)

(***************************************************************************)
(* State                                                                   *)
(***************************************************************************)
VARIABLES
  pixbuf,      \* the argument of analyzePixbuf
  samples,     \* samples
  visited,     \* <<rows, columns>> of pixel positions the sampling loops visit
  k,           \* k
  centroids,   \* centroids
  assign,      \* assign
  iter,        \* number of completed iterations of the clustering loop
  changed,     \* changed
  clusters,    \* clusters, sorted by score
  chosen,      \* chosen
  ph,          \* ph
  ps,          \* ps
  pl,          \* pl, in units of 1 / LScale
  lightL,      \* lightL
  darkL,       \* darkL
  lightRgb,    \* lightRgb
  darkRgb,     \* darkRgb
  result,      \* the returned object
  pc,          \* position inside analyzePixbuf
  prev,        \* what the previous call on the same pixbuf ended with
  rt,          \* a colour and its conversions by rgbToHsl and hslToRgb
  cr,          \* two hex strings and their contrastRatio in both orders
  vr,          \* a primary lightness and the variant lightnesses derived
  tempFiles,   \* tempFiles
  disk,        \* the paths at which a file exists
  currentImagePath, \* currentImagePath
  clock,       \* Date.now()
  unlinked,    \* the paths handleFile has removed with GLib.unlink
  hf           \* the last call of handleFile

vars == <<pixbuf, samples, visited, k, centroids, assign, iter, changed,
          clusters, chosen, ph, ps, pl, lightL, darkL, lightRgb, darkRgb,
          result, pc, run, prev, rt, cr, vr, tempFiles, disk, currentImagePath,
          clock, unlinked, hf>>

utilVars == <<rt, cr, vr>>

fileVars == <<tempFiles, disk, currentImagePath, clock, unlinked, hf>>

pipeVars == <<pixbuf, samples, visited, k, centroids, assign, iter, changed,
              clusters, chosen, ph, ps, pl, lightL, darkL, lightRgb, darkRgb,
              result, pc, run, prev>>

NoCluster ==
  [idx |-> 0 - 1, count |-> 0, rgb |-> <<0, 0, 0>>,
   hsl |-> [h |-> <<0, 6>>, s |-> <<0, 1>>, l |-> <<0, 510>>],
   sat |-> <<0, 1>>, score |-> <<0, 1>>]

NoResult == [primary |-> <<>>, light |-> <<>>, dark |-> <<>>]

NoPrev ==
  [centroids |-> <<>>, assign |-> <<>>, chosen |-> NoCluster,
   result |-> NoResult]

\* the locals of a call of analyzePixbuf before its first statement
FreshLocals ==
  /\ samples = <<>>
  /\ visited = <<0, 0>>
  /\ k = 0
  /\ centroids = <<>>
  /\ assign = <<>>
  /\ iter = 0
  /\ changed = FALSE
  /\ clusters = <<>>
  /\ chosen = NoCluster
  /\ ph = <<0, 6>>
  /\ ps = <<0, 1>>
  /\ pl = 0
  /\ lightL = 0
  /\ darkL = 0
  /\ lightRgb = <<0, 0, 0>>
  /\ darkRgb = <<0, 0, 0>>
  /\ result = NoResult

InputPixbufs ==
  { MakePixbuf(d[1], d[2], nch, base, patch, start, len) :
      d \in Dims, nch \in {3, 4}, base \in Palette, patch \in Palette,
      start \in Starts, len \in 0..MaxPatch }
  \cup
  { MakePixbuf(1, 1, 3, Shade(sum, kind), Shade(sum, kind), 0, 0) :
      sum \in 0..MaxSum, kind \in 0..2 }
  \cup
  { MakePixbuf(d[1], d[2], nch, base, patch, start, len) :
      d \in LargeDims, nch \in {3, 4}, base \in SmallPalette,
      patch \in SmallPalette, start \in {0, 20}, len \in 0..MaxPatch }
  \cup
  { GrayRow(RampCapped), GrayRow(RampSettled), GrayRow(RampUnsettled) }
  \cup
  { Truncate(MakePixbuf(d[1], d[2], nch, base, base, 0, 0), cut) :
      d \in {<<2, 1>>, <<3, 2>>}, nch \in {3, 4}, base \in SmallPalette,
      cut \in 1..MaxCut }

\* no path
Null == <<"null", 0>>

NoCall ==
  [stage |-> "none", path |-> Null, entry |-> <<>>, removed |-> {},
   existed |-> FALSE]

\* the file state at program start: nothing tracked, nothing loaded
FilesIdle ==
  /\ tempFiles = <<>>
  /\ disk = {}
  /\ currentImagePath = Null
  /\ clock = 0
  /\ unlinked = {}
  /\ hf = NoCall

\* no conversion and no contrast computation under way
NoRt == [stage |-> "none", rgb |-> <<0, 0, 0>>,
         hsl |-> [h |-> <<0, 6>>, s |-> <<0, 1>>, l |-> <<0, 510>>],
         back |-> <<0, 0, 0>>, hex |-> <<>>, parsed |-> <<0, 0, 0>>]

NoCr == [stage |-> "none", hex1 |-> <<>>, hex2 |-> <<>>,
         ratio |-> <<1, 1>>, swapped |-> <<1, 1>>]

\* no variant derivation on a given lightness under way
NoVr == [stage |-> "none", pl |-> 0, lightL |-> 0, darkL |-> 0]

Init ==
  /\ pixbuf \in InputPixbufs
  /\ FreshLocals
  /\ pc = "sample"
  /\ run = 1
  /\ prev = NoPrev
  /\ rt = NoRt
  /\ cr = NoCr
  /\ vr = NoVr
  /\ FilesIdle

(***************************************************************************)
(* Actions: the consecutive parts of analyzePixbuf                         *)
(***************************************************************************)
\* main.ts 59-80: the sampling loops
Sample ==
  /\ pc = "sample"
  /\ samples' = CollectSamples(pixbuf)
  /\ visited' = GridSize(pixbuf)
  /\ pc' = "sampled"
  /\ UNCHANGED <<utilVars, fileVars>>
  /\ UNCHANGED <<pixbuf, k, centroids, assign, iter, changed, clusters,
                 chosen, ph, ps, pl, lightL, darkL, lightRgb, darkRgb,
                 result, run, prev>>

\* main.ts 82-84: the early return for an empty sample list
ReturnFallback ==
  /\ pc = "sampled"
  /\ NoSamples(samples)
  /\ result' = FallbackResult
  /\ pc' = "done"
  /\ UNCHANGED <<utilVars, fileVars>>
  /\ UNCHANGED visited
  /\ UNCHANGED <<pixbuf, samples, k, centroids, assign, iter, changed,
                 clusters, chosen, ph, ps, pl, lightL, darkL, lightRgb,
                 darkRgb, run, prev>>

\* main.ts 87-94: k, the initial centroids and the zero assignment
InitCentroids ==
  /\ pc = "sampled"
  /\ ~NoSamples(samples)
  /\ k' = KOf(Len(samples))
  /\ centroids' = InitialCentroids(samples, KOf(Len(samples)))
  /\ assign' = [i \in 1..Len(samples) |-> 0]
  /\ iter' = 0
  /\ pc' = "assign"
  /\ UNCHANGED <<utilVars, fileVars>>
  /\ UNCHANGED visited
  /\ UNCHANGED <<pixbuf, samples, changed, clusters, chosen, ph, ps, pl,
                 lightL, darkL, lightRgb, darkRgb, result, run, prev>>

\* main.ts 96-116: "changed = false" and the assignment loop
AssignStep ==
  /\ pc = "assign"
  /\ assign' = AssignAll(samples, centroids)
  /\ changed' = (AssignAll(samples, centroids) # assign)
  /\ pc' = "update"
  /\ UNCHANGED <<utilVars, fileVars>>
  /\ UNCHANGED visited
  /\ UNCHANGED <<pixbuf, samples, k, centroids, iter, clusters, chosen, ph,
                 ps, pl, lightL, darkL, lightRgb, darkRgb, result, run, prev>>

\* main.ts 117-140: the update loop and the loop exit
UpdateStep ==
  /\ pc = "update"
  /\ centroids' = UpdateAll(samples, assign, centroids)
  /\ changed' = (changed \/ UpdateAll(samples, assign, centroids) # centroids)
  /\ iter' = iter + 1
  /\ pc' = IF LoopEnds(changed', iter') THEN "select" ELSE "assign"
  /\ UNCHANGED <<utilVars, fileVars>>
  /\ UNCHANGED visited
  /\ UNCHANGED <<pixbuf, samples, k, assign, clusters, chosen, ph, ps, pl,
                 lightL, darkL, lightRgb, darkRgb, result, run, prev>>

\* main.ts 142-180: scoring, sorting and the choice of the primary cluster
Select ==
  /\ pc = "select"
  /\ clusters' = BuildClusters(centroids, assign)
  /\ chosen' = Choose(BuildClusters(centroids, assign), Len(samples))
  /\ pc' = "derive"
  /\ UNCHANGED <<utilVars, fileVars>>
  /\ UNCHANGED visited
  /\ UNCHANGED <<pixbuf, samples, k, centroids, assign, iter, changed, ph,
                 ps, pl, lightL, darkL, lightRgb, darkRgb, result, run, prev>>

\* main.ts 246-289: the variants and the returned object
Derive ==
  /\ pc = "derive"
  /\ ph' = chosen.hsl.h
  /\ ps' = EffectiveS(chosen.hsl.s)
  /\ pl' = LUnits(chosen.hsl.l)
  /\ lightL' = LightOf(pl')
  /\ darkL' = DarkOf(pl')
  /\ lightRgb' = hslToRgb(ph', ps', lightL')
  /\ darkRgb' = hslToRgb(ph', ps', darkL')
  /\ result' = MakeResult(chosen.rgb, lightRgb', darkRgb')
  /\ pc' = "done"
  /\ UNCHANGED <<utilVars, fileVars>>
  /\ UNCHANGED visited
  /\ UNCHANGED <<pixbuf, samples, k, centroids, assign, iter, changed,
                 clusters, chosen, run, prev>>

\* analyzePixbuf is called again on the same pixbuf: every local is new
CallAgain ==
  /\ pc = "done"
  /\ run < MaxRuns
  /\ prev' = [centroids |-> centroids, assign |-> assign, chosen |-> chosen,
              result |-> result]
  /\ run' = run + 1
  /\ samples' = <<>>
  /\ visited' = <<0, 0>>
  /\ k' = 0
  /\ centroids' = <<>>
  /\ assign' = <<>>
  /\ iter' = 0
  /\ changed' = FALSE
  /\ clusters' = <<>>
  /\ chosen' = NoCluster
  /\ ph' = <<0, 6>>
  /\ ps' = <<0, 1>>
  /\ pl' = 0
  /\ lightL' = 0
  /\ darkL' = 0
  /\ lightRgb' = <<0, 0, 0>>
  /\ darkRgb' = <<0, 0, 0>>
  /\ result' = NoResult
  /\ pc' = "sample"
  /\ UNCHANGED <<utilVars, fileVars>>
  /\ UNCHANGED pixbuf

Next ==
  \/ Sample
  \/ ReturnFallback
  \/ InitCentroids
  \/ AssignStep
  \/ UpdateStep
  \/ Select
  \/ Derive
  \/ CallAgain

Spec == Init /\ [][Next]_vars

(***************************************************************************)
(* The colour conversions applied to single colours                        *)
(***************************************************************************)
\* channel values of the colours that are converted
Levels == {0, 1, 2, 3, 64, 127, 128, 200, 254, 255}

\* no call of analyzePixbuf under way
NoPixbuf ==
  [width |-> 0, height |-> 0, rowstride |-> 0, n_channels |-> 3,
   pixels |-> <<>>]

PipelineIdle ==
  /\ pixbuf = NoPixbuf
  /\ FreshLocals
  /\ pc = "idle"
  /\ run = 0
  /\ prev = NoPrev

InitColor ==
  /\ PipelineIdle
  /\ FilesIdle
  /\ cr = NoCr
  /\ vr = NoVr
  /\ \E r \in Levels, g \in Levels, b \in Levels :
       rt = [NoRt EXCEPT !.stage = "rgb", !.rgb = <<r, g, b>>]

\* rgbToHsl(r, g, b)
ConvertToHsl ==
  /\ rt.stage = "rgb"
  /\ rt' = [rt EXCEPT !.stage = "hsl",
                      !.hsl = rgbToHsl(rt.rgb[1], rt.rgb[2], rt.rgb[3])]
  /\ UNCHANGED <<pipeVars, fileVars, cr, vr>>

\* hslToRgb(h, s, l) of the value rgbToHsl returned
ConvertBack ==
  /\ rt.stage = "hsl"
  /\ rt' = [rt EXCEPT !.stage = "back",
                      !.back = hslToRgb(rt.hsl.h, rt.hsl.s, LUnits(rt.hsl.l))]
  /\ UNCHANGED <<pipeVars, fileVars, cr, vr>>

\* rgbToHex(r, g, b)
FormatHex ==
  /\ rt.stage = "rgb"
  /\ rt' = [rt EXCEPT !.stage = "hex",
                      !.hex = rgbToHex(rt.rgb[1], rt.rgb[2], rt.rgb[3])]
  /\ UNCHANGED <<pipeVars, fileVars, cr, vr>>

\* hexToRgb(hex) of the string rgbToHex returned
ParseHex ==
  /\ rt.stage = "hex"
  /\ rt' = [rt EXCEPT !.stage = "parsed", !.parsed = hexToRgb(rt.hex)]
  /\ UNCHANGED <<pipeVars, fileVars, cr, vr>>

NextColor ==
  \/ ConvertToHsl
  \/ ConvertBack
  \/ FormatHex
  \/ ParseHex

SpecColor == InitColor /\ [][NextColor]_vars

(***************************************************************************)
(* contrastRatio applied to pairs of hex strings                           *)
(***************************************************************************)
\* channel values of the colours whose contrast is computed
ContrastLevels == {0, 1, 10, 11, 128, 255}

\* well-formed strings: what rgbToHex produces, and upper-case spellings
HexInputs ==
  { rgbToHex(r, g, b) :
      r \in ContrastLevels, g \in ContrastLevels, b \in ContrastLevels }
  \cup { <<"#", "F", "F", "F", "F", "F", "F">>,
         <<"#", "0", "B", "0", "b", "8", "0">>,
         <<"#", "A", "b", "C", "d", "E", "f">> }

InitContrast ==
  /\ PipelineIdle
  /\ FilesIdle
  /\ rt = NoRt
  /\ vr = NoVr
  /\ \E a \in HexInputs, b \in HexInputs :
       cr = [NoCr EXCEPT !.stage = "args", !.hex1 = a, !.hex2 = b]

\* contrastRatio(hex1, hex2) and contrastRatio(hex2, hex1)
Contrast ==
  /\ cr.stage = "args"
  /\ cr' = [cr EXCEPT !.stage = "done",
                      !.ratio = contrastRatio(cr.hex1, cr.hex2),
                      !.swapped = contrastRatio(cr.hex2, cr.hex1)]
  /\ UNCHANGED <<pipeVars, fileVars, rt, vr>>

NextContrast == Contrast

SpecContrast == InitContrast /\ [][NextContrast]_vars

(***************************************************************************)
(* The variant derivation (main.ts 255-279) applied to single lightnesses  *)
(***************************************************************************)
\* the primary lightnesses, in units of 1 / LScale: they contain every
\* lightness n / 510 of an RGB colour and every multiple of 0.01
Lightnesses == 0..LScale

InitVariants ==
  /\ PipelineIdle
  /\ FilesIdle
  /\ rt = NoRt
  /\ cr = NoCr
  /\ \E l \in Lightnesses : vr = [NoVr EXCEPT !.stage = "pl", !.pl = l]

\* lightL and darkL as analyzePixbuf derives them from pl
DeriveVariants ==
  /\ vr.stage = "pl"
  /\ vr' = [vr EXCEPT !.stage = "done",
                      !.lightL = LightOf(vr.pl),
                      !.darkL = DarkOf(vr.pl)]
  /\ UNCHANGED <<pipeVars, fileVars, rt, cr>>

NextVariants == DeriveVariants

SpecVariants == InitVariants /\ [][NextVariants]_vars

(***************************************************************************)
(* handleFile and the temp files of downloaded icons (main.ts 866-1173,    *)
(* 1553-1561).  A path is a pair <<kind, number>>; the colours computed by *)
(* analyzePixbuf inside handleFile do not touch the file state and are     *)
(* left out here.                                                          *)
(***************************************************************************)
\* greatest value of Date.now()
MaxClock == 3

\* files of the user
LocalPaths == { <<"local", 1>>, <<"local", 2>> }

\* a path at which there is no file
MissingPath == <<"local", 0>>

\* `${tmpDir}/branding-picker-${Date.now()}${ext}`
TmpPath(t) == <<"tmp", t>>

\* variant of KeepEntry: the entry of the opened file is removed as well
KeepNoEntry(f, path) == FALSE

\* "if (f === path) { keep.push(f); continue; }"
KeepEntry(f, path) == f = path

\* handleFile(path) called with tempFiles = tf and the files dk on disk;
\* loads says whether the file can be loaded and previewed
HandleFile(path, tf, dk, loads) ==
  LET keep == SelectSeq(tf, LAMBDA f : KeepEntry(f, path))
      gone == {tf[i] : i \in DOMAIN tf} \ {keep[i] : i \in DOMAIN keep}
  IN  /\ tempFiles' = keep
      /\ disk' = dk \ gone
      /\ unlinked' = unlinked \cup (gone \cap dk)
      /\ currentImagePath' =
           IF loads /\ path \in (dk \ gone) THEN path ELSE currentImagePath
      /\ hf' = [stage |-> "returned", path |-> path, entry |-> tf,
                removed |-> gone \cap dk, existed |-> path \in dk]

InitFiles ==
  /\ PipelineIdle
  /\ rt = NoRt
  /\ cr = NoCr
  /\ vr = NoVr
  /\ tempFiles = <<>>
  /\ disk = LocalPaths
  /\ currentImagePath = Null
  /\ clock = 0
  /\ unlinked = {}
  /\ hf = NoCall

\* main.ts 1553-1561: the icon is downloaded to a new temp file, which is
\* tracked and opened
ActivateIcon ==
  /\ clock < MaxClock
  /\ clock' = clock + 1
  /\ \E loads \in BOOLEAN :
       HandleFile(TmpPath(clock + 1), Append(tempFiles, TmpPath(clock + 1)),
                  disk \cup {TmpPath(clock + 1)}, loads)
  /\ UNCHANGED <<pipeVars, utilVars>>

\* main.ts 1553-1575: downloadUrlToTemp returns null, a dialog is shown
DownloadFails ==
  /\ clock < MaxClock
  /\ clock' = clock + 1
  /\ UNCHANGED <<tempFiles, disk, currentImagePath, unlinked, hf>>
  /\ UNCHANGED <<pipeVars, utilVars>>

\* main.ts 1598-1612, 1636-1644, 1666-1674: a file is dropped on the
\* window or picked in a file chooser
OpenFile ==
  /\ \E path \in LocalPaths \cup {MissingPath}
                   \cup {TmpPath(t) : t \in 1..clock} :
       \E loads \in BOOLEAN : HandleFile(path, tempFiles, disk, loads)
  /\ UNCHANGED clock
  /\ UNCHANGED <<pipeVars, utilVars>>

NextFiles ==
  \/ ActivateIcon
  \/ DownloadFails
  \/ OpenFile

SpecFiles == InitFiles /\ [][NextFiles]_vars

(***************************************************************************)
(* Properties                                                              *)
(***************************************************************************)
Returned == pc = "done"
Clustered == pc = "done" /\ Len(samples) > 0

HexDigits ==
  {"0", "1", "2", "3", "4", "5", "6", "7", "8", "9", "a", "b", "c", "d",
   "e", "f", "A", "B", "C", "D", "E", "F"}

WellFormedHex(h) ==
  /\ Len(h) = 7
  /\ h[1] = "#"
  /\ \A i \in 2..7 : h[i] \in HexDigits

ByteTriple(t) == Len(t) = 3 /\ \A i \in 1..3 : t[i] \in 0..255

\* C1: once sampling has ended with zero samples, no clustering step is
\* ever executed (k, centroids, assign, iter and clusters stay untouched)
\* and the call returns exactly #888888 / #bbbbbb / #444444.
C1_EmptyFallback ==
  (pc \notin {"idle", "sample"} /\ Len(samples) = 0) =>
    /\ pc \in {"sampled", "done"}
    /\ k = 0
    /\ centroids = <<>>
    /\ assign = <<>>
    /\ iter = 0
    /\ clusters = <<>>
    /\ (pc = "done" =>
          result = [primary |-> <<"#", "8", "8", "8", "8", "8", "8">>,
                    light   |-> <<"#", "b", "b", "b", "b", "b", "b">>,
                    dark    |-> <<"#", "4", "4", "4", "4", "4", "4">>])

\* a 4-channel image of several pixels, all transparent, has returned
C1_Witness ==
  /\ Returned
  /\ Len(samples) = 0
  /\ pixbuf.n_channels = 4
  /\ pixbuf.width * pixbuf.height > 1
  /\ result.primary = <<"#", "8", "8", "8", "8", "8", "8">>

\* C2: every returned primary, light and dark is '#' followed by exactly six
\* hex digits, and every channel given to rgbToHex is an integer in 0..255.
C2_WellFormedResult ==
  Returned =>
    /\ WellFormedHex(result.primary)
    /\ WellFormedHex(result.light)
    /\ WellFormedHex(result.dark)
    /\ (Len(samples) > 0 =>
          /\ ByteTriple(chosen.rgb)
          /\ ByteTriple(lightRgb)
          /\ ByteTriple(darkRgb))

\* a clustered 4-channel image whose light variant was clamped at 0.97 or
\* whose dark variant was clamped at 0.03 has returned
C2_Witness ==
  /\ Clustered
  /\ pixbuf.n_channels = 4
  /\ Len(samples) > 1
  /\ (lightL = CLAMP_HI \/ darkL = CLAMP_LO)
  /\ result.light # result.dark

C4_DarkGap ==
  Clustered =>
    /\ 510 * pl = chosen.hsl.l[1] * LScale
    /\ \/ 100 * (pl - darkL) >= 12 * LScale
       \/ 100 * darkL = 3 * LScale

\* a primary whose dark variant is not clamped and lies 0.26 below it
C4_Witness ==
  /\ Clustered
  /\ 100 * darkL > 3 * LScale
  /\ 100 * (pl - darkL) = 26 * LScale

\* C5: the final darkL is strictly below the primary lightness pl, for
\* every primary lightness (also below 0.03).
C5_DarkBelowPrimary == Clustered => darkL < pl

\* C6: the saturation used for both variants is max(s, 0.12) and the hue
\* used is the primary's hue; so it is never below 0.12 and equals s
\* whenever s >= 0.12.
C6_SaturationFloor ==
  Clustered =>
    /\ FracLe(<<12, 100>>, ps)
    /\ (FracLe(<<12, 100>>, chosen.hsl.s) => ps = chosen.hsl.s)
    /\ (FracLt(chosen.hsl.s, <<12, 100>>) => FracEq(ps, <<12, 100>>))
    /\ ph = chosen.hsl.h
    /\ lightRgb = hslToRgb(chosen.hsl.h, ps, lightL)
    /\ darkRgb = hslToRgb(chosen.hsl.h, ps, darkL)

\* a tinted primary with saturation strictly between 0 and 0.12
C6_Witness ==
  /\ Clustered
  /\ chosen.hsl.s[1] > 0
  /\ FracLt(chosen.hsl.s, <<12, 100>>)
  /\ FracEq(ps, <<12, 100>>)

\* |a - b| <= 1
Within1(a, b) == a - b <= 1 /\ b - a <= 1

\* C7: hslToRgb(rgbToHsl(r, g, b)) differs from (r, g, b) by at most 1 in
\* each channel.
C7_RoundTrip ==
  rt.stage = "back" => \A i \in 1..3 : Within1(rt.back[i], rt.rgb[i])

\* a colour with three different channels has been converted back
C7_Witness ==
  /\ rt.stage = "back"
  /\ rt.rgb = <<200, 64, 127>>
  /\ rt.hsl.s[1] > 0

\* C8: contrastRatio(A, B) equals contrastRatio(B, A).
C8_ContrastSymmetric == cr.stage = "done" => cr.ratio = cr.swapped

\* two colours of different luminance, the darker one given first
C8_Witness ==
  /\ cr.stage = "done"
  /\ cr.hex1 = <<"#", "0", "0", "0", "0", "8", "0">>
  /\ cr.hex2 = <<"#", "F", "F", "F", "F", "F", "F">>
  /\ cr.ratio[1] > cr.ratio[2]

\* C9: contrastRatio is at least 1, is exactly 1 for two equal colours, is
\* at most 21, and is 21 for "#ffffff" against "#000000".
C9_ContrastRange ==
  cr.stage = "done" =>
    /\ cr.ratio[2] > 0
    /\ cr.ratio[1] >= cr.ratio[2]
    /\ (cr.hex1 = cr.hex2 => cr.ratio[1] = cr.ratio[2])
    /\ cr.ratio[1] <= 21 * cr.ratio[2]
    /\ (/\ cr.hex1 = <<"#", "f", "f", "f", "f", "f", "f">>
        /\ cr.hex2 = <<"#", "0", "0", "0", "0", "0", "0">>
        => cr.ratio[1] = 21 * cr.ratio[2])

\* white against black has been computed and is 21
C9_Witness ==
  /\ cr.stage = "done"
  /\ cr.hex1 = <<"#", "f", "f", "f", "f", "f", "f">>
  /\ cr.hex2 = <<"#", "0", "0", "0", "0", "0", "0">>
  /\ cr.ratio[1] = 21 * cr.ratio[2]

\* the clusters that hold at least 3% of the samples
ThreePercent == {i \in DOMAIN clusters : 100 * clusters[i].count >= 3 * Len(samples)}

\* cluster i is a most saturated one among ThreePercent
MostSaturated(i) ==
  /\ i \in ThreePercent
  /\ \A j \in ThreePercent : FracLe(clusters[j].sat, clusters[i].sat)

\* a.sat > b.sat + 0.05
Exceeds005(a, b) == 20 * a[1] * b[2] > 20 * b[1] * a[2] + a[2] * b[2]

\* C10: when the top-scoring cluster's saturation is below 0.12, the primary
\* is switched to the most saturated cluster among those holding at least
\* 3% of the samples if and only if that cluster's saturation exceeds the
\* top's by more than 0.05, so every cluster switched to holds at least 3%
\* of the samples; otherwise the top-scoring cluster is kept.
C10_DesaturationGuard ==
  (pc \in {"derive", "done"} /\ Len(samples) > 0) =>
    IF FracLt(clusters[1].sat, <<12, 100>>)
    THEN /\ (chosen # clusters[1] => 100 * chosen.count >= 3 * Len(samples))
         /\ IF \E i \in ThreePercent :
                 MostSaturated(i) /\ Exceeds005(clusters[i].sat, clusters[1].sat)
            THEN \E i \in ThreePercent :
                   /\ MostSaturated(i)
                   /\ Exceeds005(clusters[i].sat, clusters[1].sat)
                   /\ chosen = clusters[i]
            ELSE chosen = clusters[1]
    ELSE chosen = clusters[1]

\* the number of samples per axis the sampling step aims at
SAMPLES_PER_AXIS == 60

\* C11: for every image the sampling loops visit at most about 60 pixel
\* positions per axis (here: never more than twice 60 rows and never more
\* than twice 60 columns) and so collect at most about 60 x 60 samples,
\* whatever the width and the height are.
C11_SampleBound ==
  pc \notin {"idle", "sample"} =>
    /\ visited[1] <= 2 * SAMPLES_PER_AXIS
    /\ visited[2] <= 2 * SAMPLES_PER_AXIS
    /\ Len(samples) <= (2 * SAMPLES_PER_AXIS) * (2 * SAMPLES_PER_AXIS)

\* sampling has ended
Sampled == pc \notin {"idle", "sample"}

\* the byte indexes of the grid positions, in row-major order
GridPixels(pb) ==
  [j \in 1..(GridSize(pb)[1] * GridSize(pb)[2]) |-> GridIdx(pb, j - 1)]

\* all channel bytes of the pixel at byte index idx lie inside the buffer
InBounds(pb, idx) == idx + pb.n_channels <= Len(pb.pixels)

\* every pixel of the declared dimensions lies inside the buffer
WholeBuffer(pb) ==
  Len(pb.pixels) >= (pb.height - 1) * pb.rowstride + pb.width * pb.n_channels

PixelAt(pb, idx) ==
  <<pb.pixels[idx + 1], pb.pixels[idx + 2], pb.pixels[idx + 3]>>

AlphaAt(pb, idx) == pb.pixels[idx + 4]

\* the RGB values of the pixels at the byte indexes idxs
PixelsAt(pb, idxs) == [i \in 1..Len(idxs) |-> PixelAt(pb, idxs[i])]

\* C12: a grid position with a channel byte outside the pixel buffer adds
\* no sample: the samples are exactly the pixels of the grid positions that
\* lie inside the buffer (and, with 4 channels, have alpha 10 or more), for
\* 3-channel and for 4-channel buffers.
C12_MalformedSkip ==
  Sampled =>
    samples =
      PixelsAt(pixbuf,
               SelectSeq(GridPixels(pixbuf),
                         LAMBDA idx :
                           /\ InBounds(pixbuf, idx)
                           /\ pixbuf.n_channels = 4 =>
                                AlphaAt(pixbuf, idx) >= 10))

\* C13: on a buffer that holds all its pixels, the samples of a 4-channel
\* buffer are the RGB values of the grid pixels with alpha 10 or more, in
\* row-major order, and the samples of a 3-channel buffer are the RGB
\* values of all grid pixels.
C13_AlphaFilter ==
  (Sampled /\ WholeBuffer(pixbuf)) =>
    IF pixbuf.n_channels = 4
    THEN samples =
           PixelsAt(pixbuf,
                    SelectSeq(GridPixels(pixbuf),
                              LAMBDA idx : AlphaAt(pixbuf, idx) > 9))
    ELSE samples = PixelsAt(pixbuf, GridPixels(pixbuf))

\* a 4-channel buffer with a grid pixel of alpha 9 and one of alpha 10 has
\* been sampled
C13_Witness ==
  /\ pc = "sampled"
  /\ WholeBuffer(pixbuf)
  /\ pixbuf.n_channels = 4
  /\ \E i \in DOMAIN GridPixels(pixbuf) :
       AlphaAt(pixbuf, GridPixels(pixbuf)[i]) = 9
  /\ \E i \in DOMAIN GridPixels(pixbuf) :
       AlphaAt(pixbuf, GridPixels(pixbuf)[i]) = 10
  /\ Len(samples) > 0
  /\ Len(samples) < Len(GridPixels(pixbuf))

\* all samples are one colour
Uniform == Len(samples) > 0 /\ \A i \in DOMAIN samples : samples[i] = samples[1]

\* C14: when all samples are one colour c, the call ends with all samples
\* in one cluster, zero members in every other cluster, and the hex of c as
\* primary; for c = (255, 0, 0) the primary is #ff0000, the lightness 0.5
\* is inside the default range, and the variants are built at lightness
\* 0.72 and 0.24.
C14_UniformImage ==
  (pc = "done" /\ Uniform) =>
    /\ \E c \in 0..(k - 1) :
         /\ \A i \in DOMAIN assign : assign[i] = c
         /\ \A j \in DOMAIN clusters :
              clusters[j].count = (IF clusters[j].idx = c THEN Len(samples)
                                   ELSE 0)
    /\ WellFormedHex(result.primary)
    /\ hexToRgb(result.primary) = samples[1]
    /\ samples[1] = <<255, 0, 0>> =>
         /\ result.primary = <<"#", "f", "f", "0", "0", "0", "0">>
         /\ 100 * pl >= 15 * LScale /\ 100 * pl <= 85 * LScale
         /\ 100 * lightL = 72 * LScale
         /\ 100 * darkL = 24 * LScale
         /\ result.light = <<"#", "f", "f", "7", "0", "7", "0">>
         /\ result.dark = <<"#", "7", "a", "0", "0", "0", "0">>

\* a call on several samples that are all (255, 0, 0) has returned
C14_Witness ==
  /\ pc = "done"
  /\ Uniform
  /\ Len(samples) > 1
  /\ k >= 2
  /\ samples[1] = <<255, 0, 0>>

\* the clustering loop has been set up
Seeded == pc \in {"assign", "update", "select", "derive", "done"}

\* C16: for n > 0 samples the clustering runs on k centroids, where k is
\* floor(n / 20) limited to the range 2..6 (2 below 60 samples, 6 from 120
\* samples on); with one sample both initial centroids are that sample.
C16_ClusterCount ==
  (Seeded /\ Len(samples) > 0) =>
    /\ k \in 2..6
    /\ Len(centroids) = k
    /\ Len(samples) < 3 * 20 => k = 2
    /\ Len(samples) >= 6 * 20 => k = 6
    /\ (Len(samples) >= 3 * 20 /\ Len(samples) < 6 * 20) =>
         (20 * k <= Len(samples) /\ Len(samples) < 20 * (k + 1))
    /\ (pc = "assign" /\ iter = 0 /\ Len(samples) = 1) =>
         centroids = <<samples[1], samples[1]>>

\* the clustering loop has been set up on a single sample
C16_Witness ==
  /\ pc = "assign"
  /\ iter = 0
  /\ Len(samples) = 1
  /\ k = 2
  /\ Len(centroids) = 2

\* squared Euclidean distance of two RGB triples
SqDist(p, q) ==
  LET sq(x) == x * x
  IN  sq(p[1] - q[1]) + sq(p[2] - q[2]) + sq(p[3] - q[3])

\* centroid c (0-based) is a nearest centroid of sample i, and no centroid
\* of lower index is as near
NearestLowest(i, c) ==
  /\ c \in 0..(k - 1)
  /\ \A o \in 0..(k - 1) :
       /\ SqDist(samples[i], centroids[c + 1])
            <= SqDist(samples[i], centroids[o + 1])
       /\ SqDist(samples[i], centroids[c + 1])
            = SqDist(samples[i], centroids[o + 1]) => c <= o

\* C17: after the assignment step of every iteration each sample is
\* assigned to a centroid at minimal squared RGB distance among all k
\* centroids, the lowest-indexed one among those at minimal distance.
C17_AssignNearest ==
  pc = "update" => \A i \in DOMAIN samples : NearestLowest(i, assign[i])

\* the assignment step of a second or later iteration has run, some sample
\* has two centroids at minimal distance, and some sample is in a cluster
\* other than 0
C17_Witness ==
  /\ pc = "update"
  /\ iter >= 1
  /\ \E i \in DOMAIN samples : \E o \in 0..(k - 1) :
       /\ o # assign[i]
       /\ SqDist(samples[i], centroids[o + 1])
            = SqDist(samples[i], centroids[assign[i] + 1])
  /\ \E i \in DOMAIN samples : assign[i] > 0

RECURSIVE Total(_, _, _)
\* f[lo] + ... + f[hi]
Total(f, lo, hi) ==
  IF lo > hi THEN 0
  ELSE IF lo = hi THEN f[lo]
  ELSE Total(f, lo, (lo + hi) \div 2) + Total(f, ((lo + hi) \div 2) + 1, hi)

\* number of samples assigned to cluster c
MemberCount(c) ==
  Total([i \in DOMAIN assign |-> IF assign[i] = c THEN 1 ELSE 0],
        1, Len(assign))

\* sum of channel ch over the samples assigned to cluster c
MemberSum(c, ch) ==
  Total([i \in DOMAIN assign |-> IF assign[i] = c THEN samples[i][ch] ELSE 0],
        1, Len(assign))

\* m is sum / cnt rounded to the nearest integer, a half rounded up
RoundedMean(m, sum, cnt) ==
  2 * cnt * m - cnt <= 2 * sum /\ 2 * sum < 2 * cnt * m + cnt

\* C18: the update step of every iteration sets each centroid that has
\* members to the per-channel rounded mean of its members, leaves each
\* centroid without members as it is, and changes neither a sample nor the
\* assignment; the assignment step leaves the samples alone as well.
C18_UpdateStep ==
  [][/\ pc = "update" =>
          /\ samples' = samples
          /\ assign' = assign
          /\ Len(centroids') = k
          /\ \A c \in 0..(k - 1) :
               IF MemberCount(c) > 0
               THEN \A ch \in 1..3 :
                      RoundedMean(centroids'[c + 1][ch], MemberSum(c, ch),
                                  MemberCount(c))
               ELSE centroids'[c + 1] = centroids[c + 1]
     /\ pc = "assign" => samples' = samples]_vars

\* an update step has run in which one cluster had no member and another
\* had members whose mean in some channel is not an integer
C18_Witness ==
  /\ pc \in {"assign", "select"}
  /\ iter >= 1
  /\ \E c \in 0..(k - 1) : MemberCount(c) = 0
  /\ \E c \in 0..(k - 1) :
       /\ MemberCount(c) > 1
       /\ \E ch \in 1..3 : MemberSum(c, ch) % MemberCount(c) # 0

\* C19: the clustering loop runs at most 12 iterations; an iteration ends
\* the loop exactly when it changed no assignment and no centroid, or when
\* it is the 12th; otherwise the next iteration starts.
C19_LoopBound ==
  [][/\ iter' <= 12
     /\ pc = "assign" =>
          /\ pc' = "update"
          /\ changed' <=> (assign' # assign)
     /\ pc = "update" =>
          /\ iter' = iter + 1
          /\ pc' \in {"assign", "select"}
          /\ pc' = "select" <=>
               \/ ~changed /\ centroids' = centroids
               \/ iter' = 12]_vars

\* the loop has ended by the cap: its 12th iteration still changed
\* something
C19_Witness ==
  /\ pc = "select"
  /\ iter = 12
  /\ changed

\* the HSL saturation of an RGB triple, as a fraction
Saturation(rgb) ==
  LET hi == Max3(rgb[1], rgb[2], rgb[3])
      lo == Min3(rgb[1], rgb[2], rgb[3])
  IN  IF hi = lo THEN <<0, 1>>
      ELSE IF hi + lo > 255 THEN <<hi - lo, 2 * 255 - hi - lo>>
      ELSE <<hi - lo, hi + lo>>

\* the clusters have been scored and sorted
Scored == pc \in {"derive", "done"} /\ Len(samples) > 0

\* C20: every one of the k clusters is scored memberCount * (1 + 3 *
\* saturation), with the member count of the final assignment and the
\* saturation of the final centroid; the first cluster of the sorted list
\* (the initial choice) has maximal score, and the lowest cluster index
\* among the clusters of that score.
C20_Scoring ==
  Scored =>
    /\ Len(clusters) = k
    /\ {clusters[j].idx : j \in DOMAIN clusters} = 0..(k - 1)
    /\ \A j \in DOMAIN clusters :
         LET c == clusters[j]
             sat == Saturation(centroids[c.idx + 1])
         IN  /\ c.count = MemberCount(c.idx)
             /\ c.rgb = centroids[c.idx + 1]
             /\ FracEq(c.sat, sat)
             /\ FracEq(c.score, <<c.count * (sat[2] + 3 * sat[1]), sat[2]>>)
    /\ \A j \in DOMAIN clusters :
         /\ FracLe(clusters[j].score, clusters[1].score)
         /\ FracEq(clusters[j].score, clusters[1].score) =>
              clusters[1].idx <= clusters[j].idx

\* the clusters have been sorted and two clusters with members share the
\* top score
C20_Witness ==
  /\ pc = "derive"
  /\ Len(samples) > 0
  /\ clusters[1].count > 0
  /\ \E j \in DOMAIN clusters :
       /\ j # 1
       /\ clusters[j].count > 0
       /\ FracEq(clusters[j].score, clusters[1].score)

\* the paths in a list of paths
Entries(list) == {list[i] : i \in DOMAIN list}

\* C15: when handleFile(path) has returned, after any downloads and loads,
\* tempFiles holds no entry other than path, every file that was tracked
\* when the call began and differs from path has been unlinked and is gone,
\* and path itself has not been unlinked: it is on disk if it was before.
C15_TempCleanup ==
  hf.stage = "returned" =>
    /\ Entries(tempFiles) \subseteq {hf.path}
    /\ \A f \in Entries(hf.entry) \ {hf.path} :
         /\ f \in unlinked
         /\ f \notin disk
    /\ hf.path \notin hf.removed
    /\ hf.existed => hf.path \in disk

\* a second icon has been downloaded and opened: the temp file of the
\* first one was tracked at the call and has been removed
C15_Witness ==
  /\ hf.stage = "returned"
  /\ hf.path = TmpPath(2)
  /\ hf.entry = <<TmpPath(1), TmpPath(2)>>
  /\ hf.removed = {TmpPath(1)}
  /\ tempFiles = <<TmpPath(2)>>
  /\ TmpPath(2) \in disk

\* n hundredths, in units of 1 / LScale
Pct(n) == (n * LScale) \div 100

\* v limited to [0.03, 0.97]
Clamped(v) ==
  IF v < Pct(3) THEN Pct(3) ELSE IF v > Pct(97) THEN Pct(97) ELSE v

\* the triples <<pl, lightL, darkL>> of the derivations that have ended: in
\* a call of analyzePixbuf, and on a single lightness
Derivations ==
  (IF pc = "done" /\ Len(samples) > 0 THEN {<<pl, lightL, darkL>>} ELSE {})
    \cup (IF vr.stage = "done" THEN {<<vr.pl, vr.lightL, vr.darkL>>} ELSE {})

\* C21: for every primary lightness l with 0.15 <= l <= 0.85 the final
\* lightL is clamp(l + 0.22) and the final darkL is clamp(l - 0.26), clamp
\* being to [0.03, 0.97]: the minimum-gap correction does not alter darkL.
C21_DefaultDeltas ==
  \A t \in Derivations :
    (t[1] >= Pct(15) /\ t[1] <= Pct(85)) =>
      /\ t[2] = Clamped(t[1] + Pct(22))
      /\ t[3] = Clamped(t[1] - Pct(26))

\* the variants of lightness 0.15 have been derived: darkL is the floor
\* 0.03 and lies exactly 0.12 below the primary
C21_Witness ==
  /\ vr.stage = "done"
  /\ vr.pl = Pct(15)
  /\ vr.darkL = Pct(3)
  /\ vr.pl - vr.darkL = Pct(12)

\* C22: for every primary lightness l > 0.85 the final lightL is
\* clamp(l - 0.08) and the final darkL is clamp(l - 0.3); l = 0.85 itself
\* takes the default deltas.
C22_VeryLight ==
  \A t \in Derivations :
    /\ t[1] > Pct(85) =>
         /\ t[2] = Clamped(t[1] - Pct(8))
         /\ t[3] = Clamped(t[1] - Pct(30))
    /\ t[1] = Pct(85) =>
         /\ t[2] = Clamped(t[1] + Pct(22))
         /\ t[3] = Clamped(t[1] - Pct(26))

\* the variants of the first lightness above 0.85 have been derived
C22_Witness ==
  /\ vr.stage = "done"
  /\ vr.pl = Pct(85) + 1
  /\ vr.lightL = vr.pl - Pct(8)
  /\ vr.darkL = vr.pl - Pct(30)

\* C23: for every primary lightness l < 0.15 the final lightL is
\* clamp(l + 0.3), and the final darkL is clamp(l - 0.08) unless that lies
\* less than 0.12 below l, in which case it is clamp(l - 0.12); l = 0.05
\* gives lightL = 0.35 and darkL = 0.03.
C23_VeryDark ==
  \A t \in Derivations :
    /\ t[1] < Pct(15) =>
         /\ t[2] = Clamped(t[1] + Pct(30))
         /\ t[3] = IF t[1] - Clamped(t[1] - Pct(8)) < Pct(12)
                   THEN Clamped(t[1] - Pct(12))
                   ELSE Clamped(t[1] - Pct(8))
    /\ t[1] = Pct(5) => (t[2] = Pct(35) /\ t[3] = Pct(3))

\* the variants of lightness 0.05 have been derived
C23_Witness ==
  /\ vr.stage = "done"
  /\ vr.pl = Pct(5)
  /\ vr.lightL = Pct(35)
  /\ vr.darkL = Pct(3)

\* C27: for every primary lightness in [0, 1] the final lightL and darkL
\* lie in [0.03, 0.97] and lightL is greater than darkL.
C27_VariantOrder ==
  \A t \in Derivations :
    /\ t[2] >= Pct(3) /\ t[2] <= Pct(97)
    /\ t[3] >= Pct(3) /\ t[3] <= Pct(97)
    /\ t[2] > t[3]

\* the variants of lightness 1 have been derived
C27_Witness ==
  /\ vr.stage = "done"
  /\ vr.pl = LScale
  /\ vr.lightL = Pct(92)
  /\ vr.darkL = Pct(70)

\* the sixteen lower-case hexadecimal digits
Digits16 ==
  <<"0", "1", "2", "3", "4", "5", "6", "7", "8", "9", "a", "b", "c", "d",
    "e", "f">>

\* the two hexadecimal digits of a byte
HexPair(n) == <<Digits16[(n \div 16) + 1], Digits16[(n % 16) + 1]>>

\* "#rrggbb" of an RGB triple
HexOf(rgb) == <<"#">> \o HexPair(rgb[1]) \o HexPair(rgb[2]) \o HexPair(rgb[3])

\* C24: the primary of every result other than the fallback is "#rrggbb"
\* of the final centroid of the chosen cluster; neither the saturation
\* floor nor a lightness shift enters it, also when the chosen cluster's
\* saturation is below 0.12.
C24_PrimaryUnmodified ==
  (pc = "done" /\ Len(samples) > 0) =>
    /\ chosen.idx \in 0..(k - 1)
    /\ chosen.rgb = centroids[chosen.idx + 1]
    /\ result.primary = HexOf(centroids[chosen.idx + 1])

\* a call has returned whose chosen cluster is tinted with a saturation
\* below 0.12: the floor raised the saturation of the variants
C24_Witness ==
  /\ pc = "done"
  /\ Len(samples) > 0
  /\ chosen.hsl.s[1] > 0
  /\ 25 * chosen.hsl.s[1] < 3 * chosen.hsl.s[2]
  /\ ps = <<3, 25>>
  /\ lightL # pl

\* the fraction x lies in [0, 1]
InUnit(x) == x[2] > 0 /\ x[1] >= 0 /\ x[1] <= x[2]

\* C25: for every RGB triple of bytes rgbToHsl returns a hue in [0, 1), a
\* saturation in [0, 1] and a lightness in [0, 1]; for r = g = b the hue
\* and the saturation are 0.
C25_HslRange ==
  rt.stage \in {"hsl", "back"} =>
    /\ InUnit(rt.hsl.h) /\ rt.hsl.h[1] < rt.hsl.h[2]
    /\ InUnit(rt.hsl.s)
    /\ InUnit(rt.hsl.l)
    /\ (rt.rgb[1] = rt.rgb[2] /\ rt.rgb[2] = rt.rgb[3]) =>
         (rt.hsl.h[1] = 0 /\ rt.hsl.s[1] = 0)

\* a red with a little more blue than green has been converted: its hue
\* lies just below 1
C25_Witness ==
  /\ rt.stage = "hsl"
  /\ rt.rgb = <<255, 0, 1>>
  /\ rt.hsl.h = <<6 * 255 - 1, 6 * 255>>
  /\ rt.hsl.s = <<255, 255>>

\* C26: whenever there are samples, the cluster chosen as primary, be it
\* the top-scoring one or one picked by the desaturation guard, has at
\* least one member in the final assignment, also when clusters without
\* members are among the scored clusters.
C26_ChosenNonEmpty ==
  Scored =>
    /\ \E j \in DOMAIN clusters : chosen = clusters[j]
    /\ chosen.count = MemberCount(chosen.idx)
    /\ MemberCount(chosen.idx) >= 1

\* the desaturation guard has replaced the top-scoring cluster while a
\* cluster without members is among the scored clusters
C26_Witness ==
  /\ pc = "derive"
  /\ Len(samples) > 0
  /\ chosen # clusters[1]
  /\ \E j \in DOMAIN clusters : clusters[j].count = 0

\* the assignment and the centroids are consistent: every sample sits at
\* its nearest centroid (the lowest index among equals) and every centroid
\* with members is the rounded mean of its members
FixedPoint ==
  /\ \A i \in DOMAIN samples : NearestLowest(i, assign[i])
  /\ \A c \in 0..(k - 1) :
       MemberCount(c) > 0 =>
         \A ch \in 1..3 :
           RoundedMean(centroids[c + 1][ch], MemberSum(c, ch), MemberCount(c))

\* the clustering loop has been left
LoopLeft == pc \in {"select", "derive", "done"} /\ Len(samples) > 0

\* C28: when the clustering loop has been left before its 12th iteration,
\* the final assignment and the final centroids are a fixed point of the
\* two steps; and whenever the loop is left, by the cap too, the final
\* assignment is the one computed against the centroids of before the last
\* update.
C28_ConsistentResult ==
  /\ []((LoopLeft /\ iter < 12) => FixedPoint)
  /\ [][(pc = "update" /\ pc' = "select") =>
          /\ assign' = assign
          /\ \A i \in DOMAIN samples : NearestLowest(i, assign[i])]_vars

\* the loop has been left after 2 to 11 iterations with at least two
\* clusters that have members
C28_Witness ==
  /\ pc = "select"
  /\ iter \in 2..11
  /\ ~changed
  /\ \E c \in 0..(k - 1) : \E o \in 0..(k - 1) :
       c # o /\ MemberCount(c) > 0 /\ MemberCount(o) > 0

\* C29: in every state reached by calls of handleFile, with loads that
\* succeed or fail, on downloaded temp files or local files,
\* currentImagePath is null or names a file that handleFile has not
\* unlinked.
C29_NoStalePath ==
  currentImagePath = Null \/ currentImagePath \notin unlinked

\* C30: for every RGB triple of bytes, hexToRgb of the string rgbToHex
\* makes of it is the triple again.
C30_HexRoundTrip ==
  rt.stage = "parsed" =>
    /\ WellFormedHex(rt.hex)
    /\ rt.parsed = rt.rgb

\* a colour whose hex string starts with zeros has been formatted and
\* parsed
C30_Witness ==
  /\ rt.stage = "parsed"
  /\ rt.rgb = <<0, 1, 255>>
  /\ rt.hex = <<"#", "0", "0", "0", "1", "f", "f">>

====
